---- MODULE Spec2Model ----
(***************************************************************************)
(* Model of the mock-data generation engine of init_db.py:                 *)
(*   age_band_from_dob, random_timestamp, UserPerformance.activity,        *)
(*   generate_activities, pop_users and generate_buddies.                  *)
(*                                                                         *)
(* Dates are proleptic Gregorian (year, month, day) records, instants are  *)
(* naive local date-times with one-second resolution; the local zone is    *)
(* taken to have a fixed UTC offset, so a POSIX timestamp is a linear      *)
(* function of the local wall clock.  Floating-point values (mu and the    *)
(* multiplier tables) are exact rationals <<numerator, denominator>>.      *)
(***************************************************************************)
EXTENDS Integers, Sequences, FiniteSets, TLC

VARIABLES
    \* age_band_from_dob calls
    today,              \* datetime.date.today()
    age_results,        \* dob -> band returned by age_band_from_dob(dob)
    \* random_timestamp calls
    rt_dt,              \* the argument dt
    rt_result,          \* <<>> before the call, <<the returned datetime>> after
    \* generate_activities
    now,                \* datetime.datetime.now() of the run
    room,               \* table room: room_id -> [created]
    user,               \* table user: user_id -> [gender, dob]
    members,            \* the rows of the membership query, in cursor order
    row,                \* index of the row the outer loop is at, 0 before it
    day,                \* the inner loop's next value of `day`
    users_performance,  \* user_id -> UserPerformance
    activities,         \* the list `activities`
    draws,              \* history: one entry per performance draw (line 394)
    \* generate_buddies
    owner_of,           \* table room: room_id -> owner_id
    room_member,        \* table room_member: room_id -> set of user_id
    room_idx,           \* index into room_ids of the room being expanded
    queue,              \* collections.deque of groups of inviters
    group,              \* inviters of the dequeued group not yet served
    user_ids,           \* the shuffled pool of invitable users
    buddies,            \* the list `buddies`
    bpc                 \* position of generate_buddies

ageVars == <<today, age_results>>
tsVars == <<rt_dt, rt_result>>
actVars == <<now, room, user, members, row, day, users_performance,
             activities, draws>>
buddyVars == <<owner_of, room_member, room_idx, queue, group, user_ids,
               buddies, bpc>>
vars == <<ageVars, tsVars, actVars, buddyVars>>

None == "None"

----------------------------------------------------------------------------
(* Sequences and small arithmetic helpers                                  *)

Range(s) == {s[i] : i \in DOMAIN s}

Last(s) == s[Len(s)]

RECURSIVE GCD(_, _)
GCD(a, b) == IF b = 0 THEN a ELSE GCD(b, a % b)

Abs(x) == IF x < 0 THEN -x ELSE x

\* A rational <<n, d>> in lowest terms with d > 0.
Rat(n, d) ==
    LET g == GCD(Abs(n), d)
    IN  IF n = 0 THEN <<0, 1>> ELSE <<n \div g, d \div g>>

RatMul(p, q) == Rat(p[1] * q[1], p[2] * q[2])

\* int(x) for a rational x: truncation toward zero.
IntOf(p) == IF p[1] >= 0 THEN p[1] \div p[2] ELSE -((-p[1]) \div p[2])

----------------------------------------------------------------------------
(* datetime: the calendar arithmetic the program relies on                 *)

IsLeap(y) == (y % 4 = 0) /\ ((y % 100 # 0) \/ (y % 400 = 0))

DaysInMonth(y, m) ==
    IF m = 2 THEN (IF IsLeap(y) THEN 29 ELSE 28)
    ELSE IF m \in {4, 6, 9, 11} THEN 30 ELSE 31

DaysBeforeYear(y) ==
    (y - 1) * 365 + ((y - 1) \div 4) - ((y - 1) \div 100) + ((y - 1) \div 400)

\* datetime._days_before_month: the table _DAYS_BEFORE_MONTH and the leap day
DaysBeforeMonth(y, m) ==
    <<0, 31, 59, 90, 120, 151, 181, 212, 243, 273, 304, 334>>[m]
        + (IF m > 2 /\ IsLeap(y) THEN 1 ELSE 0)

\* date.toordinal(): 0001-01-01 is day 1.
ToOrdinal(d) == DaysBeforeYear(d.year) + DaysBeforeMonth(d.year, d.month) + d.day

Date(y, m, d) == [year |-> y, month |-> m, day |-> d]

\* date.fromordinal()
FromOrdinal(n) ==
    CHOOSE d \in {Date(y, m, n - DaysBeforeYear(y) - DaysBeforeMonth(y, m)) :
                     y \in {yy \in ((n * 400) \div 146097)..(((n * 400) \div 146097) + 2) :
                               DaysBeforeYear(yy) < n /\ n <= DaysBeforeYear(yy + 1)},
                     m \in 1..12} :
        d.day >= 1 /\ d.day <= DaysInMonth(d.year, d.month)

DateTime(y, m, d, hh, mm, ss) ==
    [year |-> y, month |-> m, day |-> d, hour |-> hh, minute |-> mm, second |-> ss]

\* datetime.date()
DateOf(dt) == Date(dt.year, dt.month, dt.day)

SecondsPerDay == 86400

EpochOrdinal == ToOrdinal(Date(1970, 1, 1))

\* datetime.timestamp(), truncated by int()
Timestamp(dt) ==
    (ToOrdinal(DateOf(dt)) - EpochOrdinal) * SecondsPerDay
        + dt.hour * 3600 + dt.minute * 60 + dt.second

\* datetime.fromtimestamp()
FromTimestamp(t) ==
    CHOOSE dt \in {DateTime(d.year, d.month, d.day, s \div 3600, (s % 3600) \div 60, s % 60) :
                      d \in {FromOrdinal((t \div SecondsPerDay) + EpochOrdinal)},
                      s \in {t % SecondsPerDay}} : TRUE

\* (a - b).days for two datetimes: timedelta normalises with a floor.
DeltaDays(a, b) == (Timestamp(a) - Timestamp(b)) \div SecondsPerDay

\* dt - datetime.timedelta(days=n)
MinusDays(dt, n) == FromTimestamp(Timestamp(dt) - n * SecondsPerDay)

\* Monday of ISO week 1 of `y`, as an ordinal (datetime._isoweek1monday).
IsoWeek1Monday(y) ==
    LET firstday == ToOrdinal(Date(y, 1, 1))
        firstweekday == (firstday + 6) % 7
        week1monday == firstday - firstweekday
    IN  IF firstweekday > 3 THEN week1monday + 7 ELSE week1monday

\* datetime.isocalendar()[1]
IsoWeek(dt) ==
    LET n == ToOrdinal(DateOf(dt))
        w == (n - IsoWeek1Monday(dt.year)) \div 7
    IN  IF w < 0 THEN ((n - IsoWeek1Monday(dt.year - 1)) \div 7) + 1
        ELSE IF w >= 52 /\ n >= IsoWeek1Monday(dt.year + 1) THEN 1
        ELSE w + 1

----------------------------------------------------------------------------
(* age_band_from_dob                                                       *)

\* (today.month, today.day) < (dob.month, dob.day), as 0 or 1
BirthdayPending(t, dob) ==
    IF t.month < dob.month \/ (t.month = dob.month /\ t.day < dob.day)
    THEN 1 ELSE 0

Age(t, dob) == t.year - dob.year - BirthdayPending(t, dob)

AgeBandStrict(age) ==
    IF age < 15 THEN 1
    ELSE IF age < 25 THEN 2
    ELSE IF age < 35 THEN 3
    ELSE IF age < 45 THEN 4
    ELSE IF age < 55 THEN 5
    ELSE IF age < 65 THEN 6
    ELSE IF age < 75 THEN 7
    ELSE IF age < 85 THEN 8
    ELSE IF age < 95 THEN 9
    ELSE IF age < 105 THEN 10
    ELSE 11

AgeBand(age) ==
    IF age <= 15 THEN 1
    ELSE IF age <= 25 THEN 2
    ELSE IF age <= 35 THEN 3
    ELSE IF age <= 45 THEN 4
    ELSE IF age <= 55 THEN 5
    ELSE IF age <= 65 THEN 6
    ELSE IF age <= 75 THEN 7
    ELSE IF age <= 85 THEN 8
    ELSE IF age <= 95 THEN 9
    ELSE IF age <= 105 THEN 10
    ELSE 11

age_band_from_dob(t, dob) == AgeBand(Age(t, dob))

----------------------------------------------------------------------------
(* random_timestamp                                                        *)

\* dt.replace(hour=hh, minute=mm, second=ss)
Replace(dt, hh, mm, ss) == [dt EXCEPT !.hour = hh, !.minute = mm, !.second = ss]

\* start = dt.replace(hour=23, minute=59, second=59); int(start.timestamp())
max_timestamp(dt) == Timestamp(Replace(dt, 23, 59, 59))

\* end = dt.replace(hour=0, minute=0, second=0); int(end.timestamp())
min_timestamp(dt) == Timestamp(Replace(dt, 0, 0, 0))

\* random.randrange(a, b): every integer from a up to, not including, b
randrange(a, b) == a..(b - 1)

\* The timestamps random_timestamp(dt) draws from.
random_timestamp_draws(dt) == randrange(min_timestamp(dt), max_timestamp(dt))

\* The two ends of that range, the draws the activity generator is run
\* with: the first second of the day, or the last one the range holds.
random_timestamp_end(dt, last) ==
    FromTimestamp(IF last THEN max_timestamp(dt) - 1 ELSE min_timestamp(dt))

----------------------------------------------------------------------------
(* pop_users and the helpers of generate_buddies                           *)

Buddy(room_id, inviter_id, invitee_id) ==
    [room_id |-> room_id, inviter_id |-> inviter_id, invitee_id |-> invitee_id]

\* The loop of pop_users: up to n times ids.pop(), stopping at IndexError.
RECURSIVE pop_loop(_, _, _)
pop_loop(ids, n, invitees) ==
    IF n = 0 \/ ids = <<>>
    THEN [invitees |-> invitees, ids |-> ids]
    ELSE pop_loop(SubSeq(ids, 1, Len(ids) - 1), n - 1, Append(invitees, Last(ids)))

\* A pop_users that reads the tail of the list and leaves the list as it is.
pop_users_peek(ids, n) ==
    [invitees |-> pop_loop(ids, n, <<>>).invitees, ids |-> ids]

\* A pop_users whose loop runs one time fewer than asked.
pop_users_short(ids, n) == pop_loop(ids, n - 1, <<>>)

\* pop_users(ids, n): the invitees returned and the list as it is left.
pop_users(ids, n) == pop_loop(ids, n, <<>>)

\* A set as a list, in ascending order.
RECURSIVE SortedSeq(_)
SortedSeq(S) ==
    IF S = {} THEN <<>>
    ELSE LET m == CHOOSE x \in S : \A y \in S : x <= y
         IN  <<m>> \o SortedSeq(S \ {m})

\* itertools.groupby over the membership rows ordered by room_id: one group
\* per room that has at least one row.
room_ids == SortedSeq({r \in DOMAIN room_member : room_member[r] # {}})

\* [member["user_id"] for member in room]
member_ids(r) == SortedSeq(room_member[r])

KeepOwner(ids, owner) == ids

\* if owner in user_ids: user_ids.remove(owner)
RemoveOwner(ids, owner) == SelectSeq(ids, LAMBDA u : u # owner)

\* random.shuffle(ids): any arrangement of the same elements.
Shuffles(ids) ==
    {p \in [1..Len(ids) -> Range(ids)] : \A u \in Range(ids) : \E i \in 1..Len(ids) : p[i] = u}

EdgesSwapped(room_id, inviter, invitees) ==
    [i \in 1..Len(invitees) |-> Buddy(room_id, invitees[i], inviter)]

\* for invitee in invitees: buddies.append(Buddy(room_id, inviter, invitee))
Edges(room_id, inviter, invitees) ==
    [i \in 1..Len(invitees) |-> Buddy(room_id, inviter, invitees[i])]

----------------------------------------------------------------------------
(* The parameter tables and UserPerformance                                *)

PERFORMANCE_MEANS == {5000, 7500, 10000, 15000}

PERFORMANCE_SD == {1000, 1250, 1500}

\* [0.8, 1, 1.2]
PERFORMANCE_TRENDS == {<<4, 5>>, <<1, 1>>, <<6, 5>>}

\* {"male": 0.9, "female": 1.2, "neutral": 1}
GENDER_PERFORMANCE ==
    [male |-> <<9, 10>>, female |-> <<6, 5>>, neutral |-> <<1, 1>>]

\* {1: 1.3, 2: 1.1, 3: 0.8, 4: 1.1, 5: 1.2, 6: 1.0, 7: 0.9, 8: 0.8, 9: 0.7,
\*  10: 0.6, 11: 0.6}
AGEBAND_PERFORMANCE ==
    <<  <<13, 10>>, <<11, 10>>, <<4, 5>>, <<11, 10>>, <<6, 5>>, <<1, 1>>,
        <<9, 10>>, <<4, 5>>, <<7, 10>>, <<3, 5>>, <<3, 5>> >>

Activity(r, u, timestamp, performance, effort) ==
    [room_id |-> r, user_id |-> u, timestamp |-> timestamp,
     performance |-> performance, effort |-> effort]

\* UserPerformance(user_id, gender, dob) with __post_init__; `mean` and `sd`
\* are the two random.choice draws, `t` is datetime.date.today().
UserPerformance(u, gender, dob, t, mean, sd) ==
    LET band == age_band_from_dob(t, dob)
    IN  [user_id |-> u, gender |-> gender, dob |-> dob,
         age_band |-> band,
         mu |-> RatMul(RatMul(<<mean, 1>>, GENDER_PERFORMANCE[gender]),
                       AGEBAND_PERFORMANCE[band]),
         sigma |-> sd,
         week_number |-> -1,
         activities |-> <<>>]

\* random.gauss(mu, sigma) at z standard deviations from the mean.
gauss(mu, sigma, z) == Rat(mu[1] + z * sigma * mu[2], mu[2])

\* Lines 387-392: the trend step of a call that draws.
Trend(self, timestamp, trend) ==
    IF self.week_number # IsoWeek(timestamp)
    THEN [self EXCEPT !.week_number = IsoWeek(timestamp),
                      !.mu = RatMul(self.mu, trend)]
    ELSE self

\* UserPerformance.activity(room_id, timestamp): the object as the call
\* leaves it, the Activity returned, and whether performance was drawn.
\* `trend`, `z` and `effort` are the call's random draws.
activity(self, r, timestamp, trend, z, effort) ==
    IF DateOf(timestamp) \in DOMAIN self.activities
    THEN [self |-> self,
          result |-> [self.activities[DateOf(timestamp)] EXCEPT !.room_id = r],
          drawn |-> FALSE]
    ELSE CHOOSE ret \in
             {[self |-> self1,
               result |-> Activity(r, self.user_id, timestamp,
                                   IntOf(gauss(self1.mu, self1.sigma, z)), effort),
               drawn |-> TRUE] : self1 \in {Trend(self, timestamp, trend)}} : TRUE

rangeInclusive(n) == 0..n

\* range(n)
range(n) == 0..(n - 1)

----------------------------------------------------------------------------
(* States of the parts a specification does not exercise                   *)

AgeIdle == today = None /\ age_results = <<>>

TsIdle == rt_dt = None /\ rt_result = <<>>

ActIdle ==
    /\ now = None /\ room = <<>> /\ user = <<>> /\ members = <<>>
    /\ row = 0 /\ day = 0 /\ users_performance = <<>>
    /\ activities = <<>> /\ draws = <<>>

BuddyIdle ==
    /\ owner_of = <<>> /\ room_member = <<>> /\ room_idx = 0
    /\ queue = <<>> /\ group = <<>> /\ user_ids = <<>>
    /\ buddies = <<>> /\ bpc = "idle"

----------------------------------------------------------------------------
(* Specification SpecAge: calls of age_band_from_dob                       *)

\* Ages on both sides of every bound, and the two extremes.
SampleAges ==
    {0, 1, 200} \cup UNION {{b - 1, b, b + 1} : b \in {15, 25, 35, 45, 55, 65, 75, 85, 95, 105}}

SampleTodays == {Date(2026, 6, 15), Date(2024, 2, 29)}

\* Birthdays before, on and after today's month and day.
SampleBirthdays == {<<2, 28>>, <<2, 29>>, <<6, 15>>, <<6, 16>>}

SampleDobs(t) ==
    {Date(t.year - a, md[1], md[2]) : a \in SampleAges, md \in SampleBirthdays}

ValidDate(d) == d.day <= DaysInMonth(d.year, d.month)

\* How many calls of age_band_from_dob one behaviour makes.
MaxAgeCalls == 2

AgeInit ==
    /\ today \in SampleTodays
    /\ age_results = <<>>
    /\ TsIdle /\ ActIdle /\ BuddyIdle

AgeBandCall ==
    /\ Cardinality(DOMAIN age_results) < MaxAgeCalls
    /\ \E dob \in {d \in SampleDobs(today) : ValidDate(d)} \ DOMAIN age_results :
           age_results' = [d \in DOMAIN age_results \cup {dob} |->
                              IF d = dob THEN age_band_from_dob(today, dob)
                              ELSE age_results[d]]
    /\ UNCHANGED <<today, tsVars, actVars, buddyVars>>

AgeNext == AgeBandCall

SpecAge == AgeInit /\ [][AgeNext]_vars

\* The bounds of the claim, restated.
ClaimBounds == {15, 25, 35, 45, 55, 65, 75, 85, 95, 105}

ClaimAge(t, dob) ==
    (t.year - dob.year)
        - (IF <<t.month, t.day>> = <<dob.month, dob.day>> THEN 0
           ELSE IF t.month > dob.month THEN 0
           ELSE IF t.month = dob.month /\ t.day > dob.day THEN 0
           ELSE 1)

\* C7: age_band_from_dob returns 1 + the number of bounds in
\* {15,25,...,105} strictly below the age (year difference, minus one when
\* today is before the birthday); the band is in 1..11, is non-decreasing in
\* the age, and is 1 for age 0 and 11 for age 200.
C7_AgeBandMapping ==
    /\ \A d \in DOMAIN age_results :
        /\ age_results[d] = 1 + Cardinality({b \in ClaimBounds : b < ClaimAge(today, d)})
        /\ age_results[d] \in 1..11
        /\ ClaimAge(today, d) = 0 => age_results[d] = 1
        /\ ClaimAge(today, d) = 200 => age_results[d] = 11
    /\ \A d1, d2 \in DOMAIN age_results :
        ClaimAge(today, d1) <= ClaimAge(today, d2) => age_results[d1] <= age_results[d2]

\* Both extremes have been classified in one behaviour.
C7_Witness ==
    \E d1, d2 \in DOMAIN age_results :
        /\ ClaimAge(today, d1) = 0 /\ age_results[d1] = 1
        /\ ClaimAge(today, d2) = 200 /\ age_results[d2] = 11

----------------------------------------------------------------------------
(* Specification SpecTs: calls of random_timestamp                         *)

SampleInstants ==
    {DateTime(2026, 11, 1, 0, 0, 0), DateTime(2026, 11, 1, 19, 3, 27),
     DateTime(2024, 2, 29, 23, 59, 59)}

TsInit ==
    /\ rt_dt \in SampleInstants
    /\ rt_result = <<>>
    /\ AgeIdle /\ ActIdle /\ BuddyIdle

RandomTimestampCall ==
    /\ rt_result = <<>>
    /\ \E t \in random_timestamp_draws(rt_dt) : rt_result' = <<FromTimestamp(t)>>
    /\ UNCHANGED <<rt_dt, ageVars, actVars, buddyVars>>

TsNext == RandomTimestampCall

SpecTs == TsInit /\ [][TsNext]_vars

\* C8: random_timestamp(dt) returns an instant on the calendar day of dt,
\* and the instants it can return are the whole day, 00:00:00 to 23:59:59,
\* both end seconds included.
C8_FullDayWindow ==
    rt_result # <<>> =>
        /\ DateOf(rt_result[1]) = DateOf(rt_dt)
        /\ \A w \in {Replace(rt_dt, 0, 0, 0), Replace(rt_dt, 23, 59, 59)} :
               Timestamp(w) \in random_timestamp_draws(rt_dt)

\* What the code does instead: the result is on the day of dt, the first
\* second can be returned and the last one never is.
RT_LastSecondExcluded ==
    rt_result # <<>> =>
        /\ DateOf(rt_result[1]) = DateOf(rt_dt)
        /\ rt_result[1] # Replace(rt_dt, 23, 59, 59)
        /\ Timestamp(Replace(rt_dt, 0, 0, 0)) \in random_timestamp_draws(rt_dt)

----------------------------------------------------------------------------
(* Specification SpecBuddy: generate_buddies                               *)

\* Users 1..NumBuddyUsers exist; rooms 1 and 2 exist.
NumBuddyUsers == 5

BuddyUsers == 1..NumBuddyUsers

BuddyRooms == {1, 2}

\* Room owners are drawn among the first two users: by renaming users this
\* covers rooms with the same owner and with different owners.
BuddyOwners == {1, 2}

\* The most rows the table room_member holds.
MaxMemberRows == 4

BuddyInit ==
    /\ owner_of \in [BuddyRooms -> BuddyOwners]
    /\ room_member \in [BuddyRooms -> SUBSET BuddyUsers]
    /\ Cardinality(room_member[1]) + Cardinality(room_member[2]) <= MaxMemberRows
    /\ room_idx = 0 /\ queue = <<>> /\ group = <<>> /\ user_ids = <<>>
    /\ buddies = <<>> /\ bpc = "rooms"
    /\ AgeIdle /\ TsIdle /\ ActIdle

\* The room the loop is at.
room_id == room_ids[room_idx]

\* for room_id, room in zip(...): owner, queue, user_ids, shuffle
BeginRoom ==
    /\ bpc = "rooms" /\ room_idx < Len(room_ids)
    /\ room_idx' = room_idx + 1
    /\ LET r == room_ids[room_idx + 1]
           owner == owner_of[r]
       IN  /\ queue' = << <<owner>> >>
           /\ \E ids \in {RemoveOwner(member_ids(r), owner)} :
                  user_ids' \in Shuffles(ids)
    /\ group' = <<>>
    /\ bpc' = "while"
    /\ UNCHANGED <<owner_of, room_member, buddies, ageVars, tsVars, actVars>>

\* while queue: for inviter in queue.popleft()
Dequeue ==
    /\ bpc = "while" /\ group = <<>> /\ queue # <<>>
    /\ group' = Head(queue)
    /\ queue' = Tail(queue)
    /\ UNCHANGED <<owner_of, room_member, room_idx, user_ids, buddies, bpc,
                   ageVars, tsVars, actVars>>

\* One iteration of the for loop over the dequeued group.
Invite ==
    /\ bpc = "while" /\ group # <<>>
    /\ \E n \in randrange(2, 5) :
        LET inviter == Head(group)
            popped == pop_users(user_ids, n)
        IN  /\ user_ids' = popped.ids
            /\ buddies' = buddies \o Edges(room_id, inviter, popped.invitees)
            /\ queue' = IF popped.invitees # <<>>
                        THEN Append(queue, popped.invitees) ELSE queue
    /\ group' = Tail(group)
    /\ UNCHANGED <<owner_of, room_member, room_idx, bpc, ageVars, tsVars, actVars>>

\* The while loop ends: the deque is empty.
EndRoom ==
    /\ bpc = "while" /\ group = <<>> /\ queue = <<>>
    /\ bpc' = "rooms"
    /\ UNCHANGED <<owner_of, room_member, room_idx, queue, group, user_ids,
                   buddies, ageVars, tsVars, actVars>>

\* return buddies
BuddyReturn ==
    /\ bpc = "rooms" /\ room_idx = Len(room_ids)
    /\ bpc' = "done"
    /\ UNCHANGED <<owner_of, room_member, room_idx, queue, group, user_ids,
                   buddies, ageVars, tsVars, actVars>>

BuddyNext == BeginRoom \/ Dequeue \/ Invite \/ EndRoom \/ BuddyReturn

SpecBuddy == BuddyInit /\ [][BuddyNext]_vars

\* The indices of the edges of room r whose invitee is u.
InvitedAt(r, u) ==
    {i \in DOMAIN buddies : buddies[i].room_id = r /\ buddies[i].invitee_id = u}

EdgesOf(r) == {i \in DOMAIN buddies : buddies[i].room_id = r}

\* C2: after generate_buddies, every member of a room other than the owner
\* is the invitee of exactly one edge of that room; no user is the invitee
\* of two edges of a room; the owner is never an invitee.
C2_EveryMemberInvitedOnce ==
    /\ \A r \in BuddyRooms :
        /\ \A u \in BuddyUsers : Cardinality(InvitedAt(r, u)) <= 1
        /\ InvitedAt(r, owner_of[r]) = {}
    /\ bpc = "done" =>
        \A r \in BuddyRooms : \A u \in room_member[r] \ {owner_of[r]} :
            Cardinality(InvitedAt(r, u)) = 1

\* A finished run with a room of at least four non-owner members, invited
\* over two levels of the tree.
C2_Witness ==
    /\ bpc = "done"
    /\ \E r \in BuddyRooms :
        /\ Cardinality(room_member[r] \ {owner_of[r]}) >= 4
        /\ \E i \in EdgesOf(r) : buddies[i].inviter_id # owner_of[r]

\* C6 as stated: a room whose member list is empty or holds exactly one
\* user gets no Buddy edge, whether or not that user is the owner.
C6_NoEdgesForSmallRooms ==
    bpc = "done" =>
        \A r \in BuddyRooms :
            Cardinality(room_member[r]) <= 1 => EdgesOf(r) = {}

\* C6 amended: a room whose member list is empty or holds only the owner
\* gets no edge; a room whose only member is not the owner gets exactly one
\* edge, from the owner to that member.
C6_SmallRooms ==
    bpc = "done" =>
        \A r \in BuddyRooms :
            /\ room_member[r] \subseteq {owner_of[r]} => EdgesOf(r) = {}
            /\ \A u \in BuddyUsers \ {owner_of[r]} :
                   room_member[r] = {u} =>
                       {buddies[i] : i \in EdgesOf(r)} = {Buddy(r, owner_of[r], u)}
                       /\ Cardinality(EdgesOf(r)) = 1

\* A finished run over a room whose only member is its owner and a room
\* whose only member is another user.
C6_Witness ==
    /\ bpc = "done"
    /\ \E r1, r2 \in BuddyRooms :
        /\ room_member[r1] = {owner_of[r1]}
        /\ Cardinality(room_member[r2]) = 1 /\ owner_of[r2] \notin room_member[r2]
        /\ Cardinality(EdgesOf(r2)) = 1

\* Following inviter links from user u of room r reaches the owner within
\* `fuel` edges.
RECURSIVE ReachesOwner(_, _, _)
ReachesOwner(r, u, fuel) ==
    \/ u = owner_of[r]
    \/ /\ fuel > 0
       /\ \E i \in InvitedAt(r, u) : ReachesOwner(r, buddies[i].inviter_id, fuel - 1)

\* C10: in the edges of one room, in the order emitted, every inviter is the
\* room's owner or the invitee of an earlier edge of that room; so the
\* inviter links from any invitee lead to the owner and never form a cycle.
C10_RootedInvitationOrder ==
    \A i \in DOMAIN buddies :
        LET r == buddies[i].room_id
        IN  /\ \/ buddies[i].inviter_id = owner_of[r]
               \/ \E j \in 1..(i - 1) :
                      buddies[j].room_id = r
                      /\ buddies[j].invitee_id = buddies[i].inviter_id
            /\ buddies[i].inviter_id # buddies[i].invitee_id
            /\ ReachesOwner(r, buddies[i].invitee_id, Cardinality(EdgesOf(r)))

\* An edge whose inviter was itself invited by an earlier edge.
C10_Witness ==
    \E i \in DOMAIN buddies : \E j \in 1..(i - 1) :
        /\ buddies[j].room_id = buddies[i].room_id
        /\ buddies[j].invitee_id = buddies[i].inviter_id
        /\ buddies[j].inviter_id = owner_of[buddies[i].room_id]

\* The indices of the edges of room r whose inviter is u.
InviterAt(bs, r, u) ==
    {i \in DOMAIN bs : bs[i].room_id = r /\ bs[i].inviter_id = u}

SampleMemberships ==
    { <<{1, 2, 3, 4, 5}, {}>>,
      <<{2, 3, 4}, {1, 2}>>,
      <<{2, 3, 4, 5}, {3}>>,
      <<{1}, {1, 3, 4, 5}>> }

BuddyFairInit ==
    /\ owner_of \in [BuddyRooms -> BuddyOwners]
    /\ room_member \in SampleMemberships
    /\ room_idx = 0
    /\ queue = <<>>
    /\ group = <<>>
    /\ user_ids = <<>>
    /\ buddies = <<>>
    /\ bpc = "rooms"
    /\ AgeIdle /\ TsIdle /\ ActIdle

\* generate_buddies run to the end: a step is taken whenever one is possible.
SpecBuddyFair == BuddyFairInit /\ [][BuddyNext]_vars /\ WF_vars(BuddyNext)

\* The number of inviters in the groups of q.
RECURSIVE Pending(_)
Pending(q) == IF q = <<>> THEN 0 ELSE Len(Head(q)) + Pending(Tail(q))

\* A bound on the work left in the while loop of the current room: every
\* user of the pool may still be popped, enqueued in a group and served, and
\* every inviter and group waiting is still to be served.
LoopVariant(ids, q, g) == 3 * Len(ids) + 2 * (Len(g) + Pending(q)) + Len(q)

\* C12: the while loop of every room stops, whatever batch sizes are drawn:
\* every step inside it lowers LoopVariant, which is finite and never
\* negative, and under SpecBuddyFair a run that is in the loop reaches the
\* point after it, where the queue and the pool are both empty, and then the
\* return of generate_buddies.  No step taken with an empty pool adds an
\* edge.
C12_BuddyGenerationTerminates ==
    /\ [][(bpc = "while" /\ bpc' = "while") =>
             LoopVariant(user_ids', queue', group')
                 < LoopVariant(user_ids, queue, group)]_vars
    /\ [][user_ids = <<>> => buddies' = buddies]_vars
    /\ (bpc = "while") ~> (bpc = "rooms" /\ (user_ids = <<>> \/ queue = <<>>))
    /\ <>(bpc = "done")

\* A finished run over two rooms that both got edges, the second with an
\* inviter other than its owner; the pool and the queue are empty.
C12_Witness ==
    /\ bpc = "done" /\ room_idx = 2
    /\ user_ids = <<>> /\ queue = <<>> /\ group = <<>>
    /\ \A r \in BuddyRooms : EdgesOf(r) # {}
    /\ \E i \in EdgesOf(2) : buddies[i].inviter_id # owner_of[2]

----------------------------------------------------------------------------
(* Specification SpecAct: generate_activities                              *)

ActRooms == {1, 2}

ActUsers == {1, 2}

\* Monday of ISO week 45; the two days before it are in week 44.
SampleNows == {DateTime(2026, 11, 2, 12, 0, 0)}

\* Creation instants 3, 2, 1 and 0 whole days before SampleNows.
SampleCreated ==
    {DateTime(2026, 10, 30, 6, 0, 0), DateTime(2026, 10, 30, 18, 0, 0),
     DateTime(2026, 11, 1, 6, 0, 0), DateTime(2026, 11, 2, 6, 0, 0)}

\* The table user: a man of 100 (band 10) and a girl of 10 (band 1).
SampleUserTables ==
    {[u \in ActUsers |->
        IF u = 1 THEN [gender |-> "male", dob |-> Date(1926, 5, 1)]
        ELSE [gender |-> "female", dob |-> Date(2016, 5, 1)]]}

\* The draws of random.choice(PERFORMANCE_MEANS) and
\* random.choice(PERFORMANCE_SD) the generator is run with.
MeanDraws == {m \in PERFORMANCE_MEANS : m \in {5000}}

SdDraws == {sd \in PERFORMANCE_SD : sd \in {1500}}

\* The draws of random.choice(PERFORMANCE_TRENDS): down and up.
TrendDraws == {t \in PERFORMANCE_TRENDS : t # <<1, 1>>}

\* The draws of one activity: which end of the day's timestamp range, how
\* many standard deviations random.gauss is from mu, and random.randint(1, 10).
SampleDraws ==
    {[last |-> FALSE, z |-> -2, effort |-> 1],
     [last |-> TRUE, z |-> 2, effort |-> 10]}

\* The most Activity records one run produces.
MaxActivities == 4

\* The rows of the membership query: (room, member) pairs, each once, in
\* any order.
MemberRows ==
    {q \in UNION {[1..n -> ActRooms \X ActUsers] : n \in 0..4} :
        \A i, j \in DOMAIN q : q[i] = q[j] => i = j}

\* max_delta.days of the room of row m
max_delta_days(m) == DeltaDays(now, room[m[1]].created)

RECURSIVE TotalDays(_, _)
TotalDays(q, k) ==
    IF k = 0 THEN 0
    ELSE TotalDays(q, k - 1)
         + (IF max_delta_days(q[k]) > 0 THEN max_delta_days(q[k]) ELSE 0)

ActInit ==
    /\ now \in SampleNows
    /\ room \in [ActRooms -> [created : SampleCreated]]
    /\ user \in SampleUserTables
    /\ members \in MemberRows
    /\ TotalDays(members, Len(members)) <= MaxActivities
    /\ row = 0 /\ day = 0 /\ users_performance = <<>>
    /\ activities = <<>> /\ draws = <<>>
    /\ AgeIdle /\ TsIdle /\ BuddyIdle

\* The inner loop is over: before the first row, or `day` has left the range.
DaysDone ==
    IF row = 0 THEN TRUE ELSE day \notin range(max_delta_days(members[row]))

\* generate_activities is at `return activities`.
ActDone == row = Len(members) /\ DaysDone

\* for room_id, room_timestamp, user_id, gender, dob in members: lines 431-442
NextMember ==
    /\ DaysDone /\ row < Len(members)
    /\ row' = row + 1
    /\ LET u == members[row + 1][2]
       IN  IF u \in DOMAIN users_performance
           THEN UNCHANGED users_performance
           ELSE \E mean \in MeanDraws, sd \in SdDraws :
                    users_performance' =
                        [v \in DOMAIN users_performance \cup {u} |->
                            IF v = u
                            THEN UserPerformance(u, user[u].gender, user[u].dob,
                                                 DateOf(now), mean, sd)
                            ELSE users_performance[v]]
    /\ day' = 0
    /\ UNCHANGED <<now, room, user, members, activities, draws,
                   ageVars, tsVars, buddyVars>>

\* One iteration of `for day in range(max_delta.days)`: lines 443-445.
GenerateActivity ==
    /\ row > 0 /\ day \in range(max_delta_days(members[row]))
    /\ \E dt \in {MinusDays(now, day)} :
       \E d \in SampleDraws :
       \E timestamp \in {random_timestamp_end(dt, d.last)} :
       \E trend \in TrendDraws :
       \E call \in {activity(users_performance[members[row][2]], members[row][1],
                             timestamp, trend, d.z, d.effort)} :
            /\ users_performance' =
                   [users_performance EXCEPT ![members[row][2]] = call.self]
            /\ activities' = Append(activities, call.result)
            /\ draws' = IF call.drawn
                        THEN Append(draws, [user_id |-> call.result.user_id,
                                            week |-> call.self.week_number,
                                            date |-> DateOf(timestamp),
                                            mu |-> call.self.mu])
                        ELSE draws
    /\ day' = day + 1
    /\ UNCHANGED <<now, room, user, members, row, ageVars, tsVars, buddyVars>>

ActNext == NextMember \/ GenerateActivity

SpecAct == ActInit /\ [][ActNext]_vars

\* The indices of the Activity records of room r and user u.
RecordsOf(r, u) ==
    {i \in DOMAIN activities : activities[i].room_id = r /\ activities[i].user_id = u}

\* (now - created).days, restated: whole periods of 24 hours elapsed.
ElapsedDays(created) ==
    CHOOSE n \in -1..MaxActivities :
        \A elapsed \in {Timestamp(now) - Timestamp(created)} :
            n * 86400 <= elapsed /\ elapsed < (n + 1) * 86400

\* C4: for every membership row, generate_activities emits exactly one
\* Activity per elapsed day d in 0 .. (now - room.created).days - 1,
\* timestamped on the date of now minus d days; a room created 3 days before
\* now yields exactly 3 records per member, on 3 distinct dates.
C4_OneActivityPerElapsedDay ==
    ActDone =>
        \A k \in DOMAIN members :
        \A n \in {ElapsedDays(room[members[k][1]].created)} :
        \A today0 \in {ToOrdinal(DateOf(now))} :
        \A dates \in {[i \in RecordsOf(members[k][1], members[k][2]) |->
                          ToOrdinal(DateOf(activities[i].timestamp))]} :
            /\ Cardinality(DOMAIN dates) = (IF n > 0 THEN n ELSE 0)
            /\ \A d \in 0..(n - 1) :
                   Cardinality({i \in DOMAIN dates : dates[i] = today0 - d}) = 1
            /\ n = 3 => Cardinality({dates[i] : i \in DOMAIN dates}) = 3

\* A finished run with a member of a room created 3 days before now who is
\* also a member of another room that has activity.
C4_Witness ==
    /\ ActDone
    /\ \E k1, k2 \in DOMAIN members :
        /\ members[k1][2] = members[k2][2] /\ members[k1][1] # members[k2][1]
        /\ ElapsedDays(room[members[k1][1]].created) = 3
        /\ Cardinality(RecordsOf(members[k1][1], members[k1][2])) = 3
        /\ RecordsOf(members[k2][1], members[k2][2]) # {}

\* C1: all Activity records emitted for one user with a timestamp on one
\* calendar date carry the same performance, and differ only in room_id.
C1_SamePerformancePerUserAndDate ==
    \A i, j \in DOMAIN activities :
        (activities[i].user_id = activities[j].user_id
         /\ DateOf(activities[i].timestamp) = DateOf(activities[j].timestamp))
        => /\ activities[i].performance = activities[j].performance
           /\ [activities[i] EXCEPT !.room_id = activities[j].room_id] = activities[j]

\* C3: any two performance draws of one user whose timestamps are in the
\* same ISO week are made with the same mu: mu changes only when the week of
\* the sampled timestamp is a new one.
C3_SameMuWithinIsoWeek ==
    \A i, j \in DOMAIN draws :
        (draws[i].user_id = draws[j].user_id /\ draws[i].week = draws[j].week)
        => draws[i].mu = draws[j].mu

\* What holds of the code: within the rows of one room, consecutive draws of
\* a user in the same ISO week are made with the same mu.
Trend_StepwiseWithinWeek ==
    \A i \in DOMAIN draws : \A j \in {i + 1} \cap DOMAIN draws :
        (draws[i].user_id = draws[j].user_id /\ draws[i].week = draws[j].week)
        => draws[i].mu = draws[j].mu

\* C5: with the default parameter tables, no Activity has performance < 1.
C5_NoPerformanceBelowOne ==
    \A i \in DOMAIN activities : activities[i].performance >= 1

\* C9: the cache of a UserPerformance object holds an entry for exactly the
\* calendar dates sampled for that user, each the Activity drawn for it.
C9_CacheHoldsSampledDates ==
    \A u \in DOMAIN users_performance :
        /\ DOMAIN users_performance[u].activities =
               {DateOf(activities[i].timestamp) :
                   i \in {k \in DOMAIN activities : activities[k].user_id = u}}
        /\ \A i \in DOMAIN activities :
               activities[i].user_id = u =>
                   [activities[i] EXCEPT !.room_id = 0] =
                       [users_performance[u].activities[DateOf(activities[i].timestamp)]
                           EXCEPT !.room_id = 0]

\* What holds of the code: nothing is ever stored in the cache.
Cache_AlwaysEmpty ==
    \A u \in DOMAIN users_performance : DOMAIN users_performance[u].activities = {}

====
